---- MODULE Spec2Model ----
(***************************************************************************)
(* A model of the rcauth command line host: configuration resolution       *)
(* (rcauth-cli/src/config.rs), the configuration builders and validators   *)
(* of the store, server and logger crates, the error type of rcauth-core,  *)
(* and the supervision of the API and management services                  *)
(* (rcauth-cli/src/serve.rs, rcauth-cli/src/main.rs).                      *)
(***************************************************************************)
EXTENDS Integers, Sequences, FiniteSets, TLC

(***************************************************************************)
(* Bounds of the model.                                                    *)
(***************************************************************************)
\* Number of distinct I/O failures a listening service can end with.
MaxIoErrors == 2

(***************************************************************************)
(* Rust's Option and Result.                                               *)
(***************************************************************************)
None == [some |-> FALSE]
Some(v) == [some |-> TRUE, val |-> v]
Ok(v) == [ok |-> TRUE, val |-> v]
Err(e) == [ok |-> FALSE, err |-> e]
\* Option::unwrap_or / unwrap_or_else
UnwrapOr(o, d) == IF o.some THEN o.val ELSE d

(***************************************************************************)
(* Strings: character access, decimal parsing, splitting, lower-casing.    *)
(***************************************************************************)
CharAt(s, i) == SubSeq(s, i, i)
DigitChars == <<"0", "1", "2", "3", "4", "5", "6", "7", "8", "9">>
IsDigit(c) == \E d \in 1..10 : DigitChars[d] = c
DigitVal(c) == (CHOOSE d \in 1..10 : DigitChars[d] = c) - 1
AllDigits(s) == \A i \in 1..Len(s) : IsDigit(CharAt(s, i))

RECURSIVE StripZeros(_)
StripZeros(s) ==
    IF Len(s) > 1 /\ CharAt(s, 1) = "0" THEN StripZeros(SubSeq(s, 2, Len(s))) ELSE s

\* Lexicographic "greater than" of two digit strings of equal length.
RECURSIVE DigitsGreater(_, _, _)
DigitsGreater(a, b, i) ==
    IF i > Len(a) THEN FALSE
    ELSE IF DigitVal(CharAt(a, i)) > DigitVal(CharAt(b, i)) THEN TRUE
    ELSE IF DigitVal(CharAt(a, i)) < DigitVal(CharAt(b, i)) THEN FALSE
    ELSE DigitsGreater(a, b, i + 1)

\* Whether the digit string s denotes a number above the one maxDigits denotes.
Exceeds(s, maxDigits) ==
    LET t == StripZeros(s)
    IN  \/ Len(t) > Len(maxDigits)
        \/ Len(t) = Len(maxDigits) /\ DigitsGreater(t, maxDigits, 1)

RECURSIVE DecimalValue(_, _, _)
DecimalValue(s, i, acc) ==
    IF i > Len(s) THEN acc
    ELSE DecimalValue(s, i + 1, acc * 10 + DigitVal(CharAt(s, i)))

\* str::parse for an unsigned integer type whose largest value is written
\* maxDigits: an optional '+', then one or more digits, no overflow.
ParseUnsigned(s, maxDigits) ==
    LET body == IF Len(s) > 0 /\ CharAt(s, 1) = "+" THEN SubSeq(s, 2, Len(s)) ELSE s
    IN  IF Len(body) = 0 \/ ~AllDigits(body) \/ Exceeds(body, maxDigits)
        THEN None
        ELSE Some(DecimalValue(body, 1, 0))

U16MaxDigits == "65535"
U32MaxDigits == "4294967295"
ParseU16(s) == ParseUnsigned(s, U16MaxDigits)
ParseU32(s) == ParseUnsigned(s, U32MaxDigits)

\* str::split(sep) for a one-character separator: the segments between its
\* occurrences; one (empty) segment for "".
RECURSIVE SplitFrom(_, _, _, _)
SplitFrom(s, sep, start, i) ==
    IF i > Len(s) THEN << SubSeq(s, start, Len(s)) >>
    ELSE IF CharAt(s, i) = sep
    THEN << SubSeq(s, start, i - 1) >> \o SplitFrom(s, sep, i + 1, i + 1)
    ELSE SplitFrom(s, sep, start, i + 1)
Split(s, sep) == SplitFrom(s, sep, 1, 1)
SplitComma(s) == Split(s, ",")

UpperChars == <<"A", "B", "C", "D", "E", "F", "G", "H", "I", "J", "K", "L", "M",
                "N", "O", "P", "Q", "R", "S", "T", "U", "V", "W", "X", "Y", "Z">>
LowerChars == <<"a", "b", "c", "d", "e", "f", "g", "h", "i", "j", "k", "l", "m",
                "n", "o", "p", "q", "r", "s", "t", "u", "v", "w", "x", "y", "z">>
LowerChar(c) ==
    IF \E k \in 1..26 : UpperChars[k] = c
    THEN LowerChars[CHOOSE k \in 1..26 : UpperChars[k] = c]
    ELSE c
RECURSIVE ToLowerFrom(_, _)
ToLowerFrom(s, i) ==
    IF i > Len(s) THEN "" ELSE LowerChar(CharAt(s, i)) \o ToLowerFrom(s, i + 1)
to_lowercase(s) == ToLowerFrom(s, 1)

\* slice::join(", ")
RECURSIVE JoinFrom(_, _)
JoinFrom(xs, i) ==
    IF i > Len(xs) THEN ""
    ELSE IF i = Len(xs) THEN xs[i]
    ELSE xs[i] \o ", " \o JoinFrom(xs, i + 1)
JoinComma(xs) == JoinFrom(xs, 1)

SeqContains(xs, x) == \E i \in 1..Len(xs) : xs[i] = x

(***************************************************************************)
(* rcauth-core/src/error.rs: the application error type.                   *)
(***************************************************************************)
ErrorCode ==
    {"Conflict", "Internal", "Invalid", "NotFound", "ServerError", "Unauthorized",
     "Forbidden", "Timeout", "Unavailable", "UnprocessableEntity", "DatabaseError",
     "ValidationError", "ConfigurationError"}

to_status_code(code) ==
    CASE code = "Conflict" -> 409
      [] code = "ServerError" -> 500
      [] code = "Internal" -> 500
      [] code = "Invalid" -> 400
      [] code = "NotFound" -> 404
      [] code = "Unauthorized" -> 401
      [] code = "Forbidden" -> 403
      [] code = "Timeout" -> 408
      [] code = "Unavailable" -> 503
      [] code = "UnprocessableEntity" -> 422
      [] code = "DatabaseError" -> 500
      [] code = "ValidationError" -> 422
      [] code = "ConfigurationError" -> 500

\* Error::new(code, message, source): the source's text is appended.
Error_new(code, message, source) ==
    [message |-> message \o ": " \o source,
     code |-> code,
     status |-> to_status_code(code),
     source |-> Some(source),
     internal |-> Some(source),
     op |-> None,
     data |-> None]

\* Error::new_simple(code, message)
Error_new_simple(code, message) ==
    [message |-> message,
     code |-> code,
     status |-> to_status_code(code),
     source |-> None,
     internal |-> Some(message),
     op |-> None,
     data |-> None]

\* Display of an ErrorCode: serde's rename_all = "snake_case" of the variant
\* name, an underscore before every capital but the first.
IsUpper(c) == \E k \in 1..26 : UpperChars[k] = c
RECURSIVE SnakeFrom(_, _)
SnakeFrom(s, i) ==
    IF i > Len(s) THEN ""
    ELSE (IF i > 1 /\ IsUpper(CharAt(s, i)) THEN "_" ELSE "")
             \o LowerChar(CharAt(s, i)) \o SnakeFrom(s, i + 1)
ErrorCode_to_string(code) == SnakeFrom(code, 1)

\* Error::with_status, with_op, with_internal
with_status(e, status) == [e EXCEPT !.status = status]
with_op(e, op) == [e EXCEPT !.op = Some(op)]
with_internal(e, internal) == [e EXCEPT !.internal = Some(internal)]

\* Error::with_data: get_or_insert_with(HashMap::new).insert(key, value)
with_data(e, key, value) ==
    [e EXCEPT !.data = Some(IF @.some THEN (key :> value) @@ @.val ELSE (key :> value))]

\* serde_json::json!(s) of a string; the other JSON values are tagged alike.
json_string(s) == <<"string", s>>

INTERNAL_SERVER_ERROR == 500

\* Mutant: every response goes out with the generic status.
from_error_generic_status(app_err) ==
    IF app_err.some
    THEN LET e == app_err.val
             details ==
                 IF e.op.some
                 THEN Some(IF e.data.some
                           THEN ("operation" :> json_string(e.op.val)) @@ e.data.val
                           ELSE ("operation" :> json_string(e.op.val)))
                 ELSE e.data
         IN  [status |-> INTERNAL_SERVER_ERROR,
              code |-> ErrorCode_to_string(e.code),
              message |-> e.message,
              details |-> details]
    ELSE [status |-> INTERNAL_SERVER_ERROR,
          code |-> ErrorCode_to_string("Internal"),
          message |-> "An unexpected internal error occurred.",
          details |-> None]

\* Mutant: the operation label is left out of the details.
from_error_without_operation(app_err) ==
    IF app_err.some
    THEN LET e == app_err.val
         IN  [status |-> e.status,
              code |-> ErrorCode_to_string(e.code),
              message |-> e.message,
              details |-> e.data]
    ELSE [status |-> INTERNAL_SERVER_ERROR,
          code |-> ErrorCode_to_string("Internal"),
          message |-> "An unexpected internal error occurred.",
          details |-> None]

\* ErrorResponse::from_error(err): app_err is err.downcast_ref::<Error>().
from_error(app_err) ==
    IF app_err.some
    THEN LET e == app_err.val
             details ==
                 IF e.op.some
                 THEN Some(IF e.data.some
                           THEN ("operation" :> json_string(e.op.val)) @@ e.data.val
                           ELSE ("operation" :> json_string(e.op.val)))
                 ELSE e.data
         IN  [status |-> e.status,
              code |-> ErrorCode_to_string(e.code),
              message |-> e.message,
              details |-> details]
    ELSE [status |-> INTERNAL_SERVER_ERROR,
          code |-> ErrorCode_to_string("Internal"),
          message |-> "An unexpected internal error occurred.",
          details |-> None]

(***************************************************************************)
(* rcauth-store/src/config.rs: the store configuration.                    *)
(***************************************************************************)
default_port == 5432
default_pool_size == 10
default_ssl_mode == "prefer"
default_migrations_dir == "./migrations"

valid_ssl_modes == <<"disable", "prefer", "require", "verify-ca", "verify-full">>

StoreConfigBuilder_default ==
    [host |-> None, port |-> None, user |-> None, password |-> None,
     database |-> None, pool_size |-> None, ssl_mode |-> None, migrations_dir |-> None]

\* Mutant: the pool-size check off by one.
store_validate_pool_above_one(c, fs) ==
    IF c.host = "" THEN Err("Database host cannot be empty")
    ELSE IF c.user = "" THEN Err("Database user cannot be empty")
    ELSE IF c.database = "" THEN Err("Database name cannot be empty")
    ELSE IF c.pool_size <= 1 THEN Err("Pool size must be at least 1")
    ELSE IF ~SeqContains(valid_ssl_modes, c.ssl_mode)
    THEN Err("Invalid SSL mode: " \o c.ssl_mode \o ". Must be one of: "
             \o JoinComma(valid_ssl_modes))
    ELSE IF c.migrations_dir # "" /\ c.migrations_dir \notin fs
    THEN Err("Migrations directory does not exist or is not a directory: "
             \o c.migrations_dir)
    ELSE Ok(TRUE)

\* Config::validate of the store; fs is the set of paths that are directories.
store_validate(c, fs) ==
    IF c.host = "" THEN Err("Database host cannot be empty")
    ELSE IF c.user = "" THEN Err("Database user cannot be empty")
    ELSE IF c.database = "" THEN Err("Database name cannot be empty")
    ELSE IF c.pool_size = 0 THEN Err("Pool size must be at least 1")
    ELSE IF ~SeqContains(valid_ssl_modes, c.ssl_mode)
    THEN Err("Invalid SSL mode: " \o c.ssl_mode \o ". Must be one of: "
             \o JoinComma(valid_ssl_modes))
    ELSE IF c.migrations_dir # "" /\ c.migrations_dir \notin fs
    THEN Err("Migrations directory does not exist or is not a directory: "
             \o c.migrations_dir)
    ELSE Ok(TRUE)

\* Mutant: build() hands the configuration back without validating it.
store_build_unvalidated(b, fs) ==
    Ok([host |-> UnwrapOr(b.host, ""),
        port |-> UnwrapOr(b.port, default_port),
        user |-> UnwrapOr(b.user, ""),
        password |-> UnwrapOr(b.password, ""),
        database |-> UnwrapOr(b.database, ""),
        pool_size |-> UnwrapOr(b.pool_size, default_pool_size),
        ssl_mode |-> UnwrapOr(b.ssl_mode, default_ssl_mode),
        migrations_dir |-> UnwrapOr(b.migrations_dir, default_migrations_dir)])

\* ConfigBuilder::build of the store.
store_build(b, fs) ==
    LET config == [host |-> UnwrapOr(b.host, ""),
                   port |-> UnwrapOr(b.port, default_port),
                   user |-> UnwrapOr(b.user, ""),
                   password |-> UnwrapOr(b.password, ""),
                   database |-> UnwrapOr(b.database, ""),
                   pool_size |-> UnwrapOr(b.pool_size, default_pool_size),
                   ssl_mode |-> UnwrapOr(b.ssl_mode, default_ssl_mode),
                   migrations_dir |-> UnwrapOr(b.migrations_dir, default_migrations_dir)]
        checked == store_validate(config, fs)
    IN  IF checked.ok THEN Ok(config) ELSE Err(checked.err)

(***************************************************************************)
(* rcauth-server/src/config.rs: the server configuration.                  *)
(***************************************************************************)
default_api_server_host == "0.0.0.0"
default_api_server_port == 8000
default_management_server_host == "0.0.0.0"
default_management_server_port == 8001
default_enable_swagger == TRUE
default_enable_cors == TRUE
default_cors_allowed_origins == <<"*">>

ServerConfig_default ==
    [api_server_host |-> default_api_server_host,
     api_server_port |-> default_api_server_port,
     management_server_host |-> default_management_server_host,
     management_server_port |-> default_management_server_port,
     enable_swagger |-> default_enable_swagger,
     enable_cors |-> default_enable_cors,
     cors_allowed_origins |-> default_cors_allowed_origins]

ServerConfigBuilder_default ==
    [api_server_host |-> None, api_server_port |-> None,
     management_server_host |-> None, management_server_port |-> None,
     enable_swagger |-> None, enable_cors |-> None, cors_allowed_origins |-> None]

api_addr(c) == c.api_server_host \o ":" \o ToString(c.api_server_port)
management_addr(c) ==
    c.management_server_host \o ":" \o ToString(c.management_server_port)

\* Mutant: an empty allow-list rejected whether or not CORS is enabled.
server_validate_origins_always(c) ==
    IF c.api_server_host = "" THEN Err("API server host cannot be empty")
    ELSE IF c.management_server_host = ""
    THEN Err("Management server host cannot be empty")
    ELSE IF c.api_server_port = 0 THEN Err("API server port cannot be 0")
    ELSE IF c.management_server_port = 0 THEN Err("Management server port cannot be 0")
    ELSE IF /\ c.api_server_host = c.management_server_host
            /\ c.api_server_port = c.management_server_port
    THEN Err("API and management servers cannot share the same host:port combination ("
             \o c.api_server_host \o ":" \o ToString(c.api_server_port) \o ")")
    ELSE IF Len(c.cors_allowed_origins) = 0
    THEN Err("CORS is enabled but no allowed origins are specified")
    ELSE Ok(TRUE)

\* Mutant: the collision decided by the ports alone, whatever the hosts.
server_validate_same_port(c) ==
    IF c.api_server_host = "" THEN Err("API server host cannot be empty")
    ELSE IF c.management_server_host = ""
    THEN Err("Management server host cannot be empty")
    ELSE IF c.api_server_port = 0 THEN Err("API server port cannot be 0")
    ELSE IF c.management_server_port = 0 THEN Err("Management server port cannot be 0")
    ELSE IF c.api_server_port = c.management_server_port
    THEN Err("API and management servers cannot share the same host:port combination ("
             \o c.api_server_host \o ":" \o ToString(c.api_server_port) \o ")")
    ELSE IF c.enable_cors /\ Len(c.cors_allowed_origins) = 0
    THEN Err("CORS is enabled but no allowed origins are specified")
    ELSE Ok(TRUE)

\* Mutant: the host:port collision checked before the ports.
server_validate_collision_first(c) ==
    IF c.api_server_host = "" THEN Err("API server host cannot be empty")
    ELSE IF c.management_server_host = ""
    THEN Err("Management server host cannot be empty")
    ELSE IF /\ c.api_server_host = c.management_server_host
            /\ c.api_server_port = c.management_server_port
    THEN Err("API and management servers cannot share the same host:port combination ("
             \o c.api_server_host \o ":" \o ToString(c.api_server_port) \o ")")
    ELSE IF c.api_server_port = 0 THEN Err("API server port cannot be 0")
    ELSE IF c.management_server_port = 0 THEN Err("Management server port cannot be 0")
    ELSE IF c.enable_cors /\ Len(c.cors_allowed_origins) = 0
    THEN Err("CORS is enabled but no allowed origins are specified")
    ELSE Ok(TRUE)

\* Config::validate of the server.
server_validate(c) ==
    IF c.api_server_host = "" THEN Err("API server host cannot be empty")
    ELSE IF c.management_server_host = ""
    THEN Err("Management server host cannot be empty")
    ELSE IF c.api_server_port = 0 THEN Err("API server port cannot be 0")
    ELSE IF c.management_server_port = 0 THEN Err("Management server port cannot be 0")
    ELSE IF /\ c.api_server_host = c.management_server_host
            /\ c.api_server_port = c.management_server_port
    THEN Err("API and management servers cannot share the same host:port combination ("
             \o c.api_server_host \o ":" \o ToString(c.api_server_port) \o ")")
    ELSE IF c.enable_cors /\ Len(c.cors_allowed_origins) = 0
    THEN Err("CORS is enabled but no allowed origins are specified")
    ELSE Ok(TRUE)

\* Mutant: an unstaged enable_swagger falls back to bool's default.
server_build_swagger_off(b) ==
    LET default_config == ServerConfig_default
        config ==
            [api_server_host |-> UnwrapOr(b.api_server_host, default_config.api_server_host),
             api_server_port |-> UnwrapOr(b.api_server_port, default_config.api_server_port),
             management_server_host |->
                 UnwrapOr(b.management_server_host, default_config.management_server_host),
             management_server_port |->
                 UnwrapOr(b.management_server_port, default_config.management_server_port),
             enable_swagger |-> UnwrapOr(b.enable_swagger, FALSE),
             enable_cors |-> UnwrapOr(b.enable_cors, default_config.enable_cors),
             cors_allowed_origins |->
                 UnwrapOr(b.cors_allowed_origins, default_config.cors_allowed_origins)]
        checked == server_validate(config)
    IN  IF checked.ok THEN Ok(config) ELSE Err(checked.err)

\* ConfigBuilder::build of the server.
server_build(b) ==
    LET default_config == ServerConfig_default
        config ==
            [api_server_host |-> UnwrapOr(b.api_server_host, default_config.api_server_host),
             api_server_port |-> UnwrapOr(b.api_server_port, default_config.api_server_port),
             management_server_host |->
                 UnwrapOr(b.management_server_host, default_config.management_server_host),
             management_server_port |->
                 UnwrapOr(b.management_server_port, default_config.management_server_port),
             enable_swagger |-> UnwrapOr(b.enable_swagger, default_config.enable_swagger),
             enable_cors |-> UnwrapOr(b.enable_cors, default_config.enable_cors),
             cors_allowed_origins |->
                 UnwrapOr(b.cors_allowed_origins, default_config.cors_allowed_origins)]
        checked == server_validate(config)
    IN  IF checked.ok THEN Ok(config) ELSE Err(checked.err)

(***************************************************************************)
(* rcauth-core/src/logger.rs: the logger configuration.                    *)
(***************************************************************************)
default_log_level == "info"
valid_log_levels == <<"trace", "debug", "info", "warn", "error">>

LoggerConfigBuilder_default == [log_level |-> None]

\* Mutant: the level compared as written, without to_lowercase.
logger_validate_case_sensitive(c) ==
    IF ~SeqContains(valid_log_levels, c.log_level)
    THEN Err("Invalid log level: " \o c.log_level \o ". Must be one of: "
             \o JoinComma(valid_log_levels))
    ELSE Ok(TRUE)

\* Config::validate of the logger.
logger_validate(c) ==
    LET log_level == to_lowercase(c.log_level)
    IN  IF ~SeqContains(valid_log_levels, log_level)
        THEN Err("Invalid log level: " \o c.log_level \o ". Must be one of: "
                 \o JoinComma(valid_log_levels))
        ELSE Ok(TRUE)

\* ConfigBuilder::build of the logger.
logger_build(b) ==
    LET config == [log_level |-> UnwrapOr(b.log_level, default_log_level)]
        checked == logger_validate(config)
    IN  IF checked.ok THEN Ok(config) ELSE Err(checked.err)

(***************************************************************************)
(* rcauth-cli/src/config.rs: the config file and the environment.          *)
(*                                                                         *)
(* A config file is [exists, readable, syntax_ok, table]: table is the     *)
(* top-level TOML table, a function from the keys present to tagged        *)
(* values <<"str", s>>, <<"int", n>>, <<"bool", b>>, <<"arr", strings>>.   *)
(* An environment is a function from variable names to Option(string).     *)
(***************************************************************************)
EnvKeys ==
    {"RCAUTH_LOG_LEVEL",
     "RCAUTH_DB_HOST", "RCAUTH_DB_PORT", "RCAUTH_DB_USER", "RCAUTH_DB_PASSWORD",
     "RCAUTH_DB_NAME", "RCAUTH_DB_POOL_SIZE", "RCAUTH_DB_SSL_MODE",
     "RCAUTH_DB_MIGRATIONS_DIR",
     "RCAUTH_API_SERVER_HOST", "RCAUTH_API_SERVER_PORT",
     "RCAUTH_MANAGEMENT_SERVER_HOST", "RCAUTH_MANAGEMENT_SERVER_PORT",
     "RCAUTH_ENABLE_SWAGGER", "RCAUTH_ENABLE_CORS", "RCAUTH_CORS_ALLOWED_ORIGINS"}

\* serde's view of one TOML value for a field of the given Rust type.
IsTomlString(v) == v[1] = "str"
IsTomlU16(v) == v[1] = "int" /\ v[2] >= 0 /\ v[2] <= 65535
IsTomlU32(v) == v[1] = "int" /\ v[2] >= 0
IsTomlBool(v) == v[1] = "bool"
IsTomlStrings(v) == v[1] = "arr"

\* toml::from_str::<StoreConfig>: every field is required, under its rename.
toml_store_config(f) ==
    LET t == f.table
        has(k) == k \in DOMAIN t
    IN  IF /\ f.syntax_ok
           /\ has("RCAUTH_POSTGRES_HOST") /\ IsTomlString(t["RCAUTH_POSTGRES_HOST"])
           /\ has("RCAUTH_POSTGRES_PORT") /\ IsTomlU16(t["RCAUTH_POSTGRES_PORT"])
           /\ has("RCAUTH_POSTGRES_USER") /\ IsTomlString(t["RCAUTH_POSTGRES_USER"])
           /\ has("RCAUTH_POSTGRES_PASSWORD") /\ IsTomlString(t["RCAUTH_POSTGRES_PASSWORD"])
           /\ has("RCAUTH_POSTGRES_DATABASE") /\ IsTomlString(t["RCAUTH_POSTGRES_DATABASE"])
           /\ has("RCAUTH_POSTGRES_POOL_SIZE") /\ IsTomlU32(t["RCAUTH_POSTGRES_POOL_SIZE"])
           /\ has("RCAUTH_POSTGRES_SSL_MODE") /\ IsTomlString(t["RCAUTH_POSTGRES_SSL_MODE"])
           /\ has("RCAUTH_POSTGRES_MIGRATIONS_DIR")
           /\ IsTomlString(t["RCAUTH_POSTGRES_MIGRATIONS_DIR"])
        THEN Some([host |-> t["RCAUTH_POSTGRES_HOST"][2],
                   port |-> t["RCAUTH_POSTGRES_PORT"][2],
                   user |-> t["RCAUTH_POSTGRES_USER"][2],
                   password |-> t["RCAUTH_POSTGRES_PASSWORD"][2],
                   database |-> t["RCAUTH_POSTGRES_DATABASE"][2],
                   pool_size |-> t["RCAUTH_POSTGRES_POOL_SIZE"][2],
                   ssl_mode |-> t["RCAUTH_POSTGRES_SSL_MODE"][2],
                   migrations_dir |-> t["RCAUTH_POSTGRES_MIGRATIONS_DIR"][2]])
        ELSE None

\* toml::from_str::<ServerConfig>: every field has a serde default.
toml_server_config(f) ==
    LET t == f.table
        has(k) == k \in DOMAIN t
        field(k, d) == IF has(k) THEN t[k][2] ELSE d
    IN  IF /\ f.syntax_ok
           /\ has("api_server_host") => IsTomlString(t["api_server_host"])
           /\ has("api_server_port") => IsTomlU16(t["api_server_port"])
           /\ has("management_server_host") => IsTomlString(t["management_server_host"])
           /\ has("management_server_port") => IsTomlU16(t["management_server_port"])
           /\ has("enable_swagger") => IsTomlBool(t["enable_swagger"])
           /\ has("enable_cors") => IsTomlBool(t["enable_cors"])
           /\ has("cors_allowed_origins") => IsTomlStrings(t["cors_allowed_origins"])
        THEN Some([api_server_host |-> field("api_server_host", default_api_server_host),
                   api_server_port |-> field("api_server_port", default_api_server_port),
                   management_server_host |->
                       field("management_server_host", default_management_server_host),
                   management_server_port |->
                       field("management_server_port", default_management_server_port),
                   enable_swagger |-> field("enable_swagger", default_enable_swagger),
                   enable_cors |-> field("enable_cors", default_enable_cors),
                   cors_allowed_origins |->
                       field("cors_allowed_origins", default_cors_allowed_origins)])
        ELSE None

\* toml::from_str::<LoggerConfig>: the one field is required.
toml_logger_config(f) ==
    LET t == f.table
    IN  IF /\ f.syntax_ok
           /\ "RCAUTH_LOG_LEVEL" \in DOMAIN t
           /\ IsTomlString(t["RCAUTH_LOG_LEVEL"])
        THEN Some([log_level |-> t["RCAUTH_LOG_LEVEL"][2]])
        ELSE None

ConfigFile_default == [store_config |-> None, server_config |-> None, logger_config |-> None]

\* Mutant: a domain the file does not parse as gets its Default, not None.
load_config_file_or_default(f) ==
    IF f.exists /\ f.readable
    THEN [store_config |-> toml_store_config(f),
          server_config |-> Some(UnwrapOr(toml_server_config(f), ServerConfig_default)),
          logger_config |-> toml_logger_config(f)]
    ELSE ConfigFile_default

load_config_file(f) ==
    IF f.exists
    THEN IF f.readable
         THEN [store_config |-> toml_store_config(f),
               server_config |-> toml_server_config(f),
               logger_config |-> toml_logger_config(f)]
         ELSE ConfigFile_default
    ELSE ConfigFile_default

\* One optional setter call of a builder: `if let Ok(v) = ... { builder.k(v) }`.
Stage(b, k, o) == IF o.some THEN [b EXCEPT ![k] = Some(o.val)] ELSE b
\* `if let Ok(s) = var { if let Ok(n) = s.parse::<u16>() { .. } }`, and u32.
AndThenParseU16(o) == IF o.some THEN ParseU16(o.val) ELSE None
AndThenParseU32(o) == IF o.some THEN ParseU32(o.val) ELSE None
\* `var == "true"`
EqTrue(o) == IF o.some THEN Some(o.val = "true") ELSE None
\* Mutant: the empty segments of the list are dropped.
IsOrigin(x) == x # ""
SplitOriginsSkipEmpty(o) ==
    IF o.some THEN Some(SelectSeq(SplitComma(o.val), IsOrigin)) ELSE None
\* `origins.split(',').map(String::from).collect()`
SplitOrigins(o) == IF o.some THEN Some(SplitComma(o.val)) ELSE None

\* The builder load_store_from_env has staged when it calls build().
store_env_builder(e) ==
    LET b1 == Stage(StoreConfigBuilder_default, "host", e["RCAUTH_DB_HOST"])
        b2 == Stage(b1, "port", AndThenParseU16(e["RCAUTH_DB_PORT"]))
        b3 == Stage(b2, "user", e["RCAUTH_DB_USER"])
        b4 == Stage(b3, "password", e["RCAUTH_DB_PASSWORD"])
        b5 == Stage(b4, "database", e["RCAUTH_DB_NAME"])
        b6 == Stage(b5, "pool_size", AndThenParseU32(e["RCAUTH_DB_POOL_SIZE"]))
        b7 == Stage(b6, "ssl_mode", e["RCAUTH_DB_SSL_MODE"])
    IN  Stage(b7, "migrations_dir", e["RCAUTH_DB_MIGRATIONS_DIR"])

load_store_from_env(e, fs) ==
    LET built == store_build(store_env_builder(e), fs)
    IN  IF built.ok THEN built
        ELSE Err(Error_new_simple("ConfigurationError",
                                  "Invalid database configuration: " \o built.err))

\* The builder load_server_from_env has staged when it calls build().
server_env_builder(e) ==
    LET b1 == Stage(ServerConfigBuilder_default, "api_server_host",
                    e["RCAUTH_API_SERVER_HOST"])
        b2 == Stage(b1, "api_server_port", AndThenParseU16(e["RCAUTH_API_SERVER_PORT"]))
        b3 == Stage(b2, "management_server_host", e["RCAUTH_MANAGEMENT_SERVER_HOST"])
        b4 == Stage(b3, "management_server_port",
                    AndThenParseU16(e["RCAUTH_MANAGEMENT_SERVER_PORT"]))
        b5 == Stage(b4, "enable_swagger", EqTrue(e["RCAUTH_ENABLE_SWAGGER"]))
        b6 == Stage(b5, "enable_cors", EqTrue(e["RCAUTH_ENABLE_CORS"]))
    IN  Stage(b6, "cors_allowed_origins", SplitOrigins(e["RCAUTH_CORS_ALLOWED_ORIGINS"]))

load_server_from_env(e) ==
    LET built == server_build(server_env_builder(e))
    IN  IF built.ok THEN built
        ELSE Err(Error_new_simple("ConfigurationError",
                                  "Invalid server configuration: " \o built.err))

\* The builder load_logger_from_env has staged when it calls build().
logger_env_builder(e) ==
    Stage(LoggerConfigBuilder_default, "log_level", e["RCAUTH_LOG_LEVEL"])

load_logger_from_env(e) ==
    LET built == logger_build(logger_env_builder(e))
    IN  IF built.ok THEN built
        ELSE Err(Error_new_simple("ConfigurationError",
                                  "Invalid logger configuration: " \o built.err))

\* Mutant: the environment consulted first, the cached file only when it fails.
load_store_config_env_first(cached, e, fs) ==
    LET r == load_store_from_env(e, fs)
    IN  IF r.ok THEN r
        ELSE IF cached.store_config.some THEN Ok(cached.store_config.val)
        ELSE Err(Error_new_simple(
                 "ConfigurationError",
                 "Failed to load database configuration from environment or config file"))

\* The three loaders take the cached ConfigFile (the lazy static CONFIG).
load_store_config(cached, e, fs) ==
    IF cached.store_config.some THEN Ok(cached.store_config.val)
    ELSE LET r == load_store_from_env(e, fs)
         IN  IF r.ok THEN r
             ELSE Err(Error_new_simple(
                      "ConfigurationError",
                      "Failed to load database configuration from environment or config file"))

\* Mutant: the environment consulted first, the file only when it fails.
load_server_config_env_first(cached, e) ==
    LET r == load_server_from_env(e)
    IN  IF r.ok THEN r
        ELSE IF cached.server_config.some THEN Ok(cached.server_config.val)
        ELSE r

load_server_config(cached, e) ==
    IF cached.server_config.some THEN Ok(cached.server_config.val)
    ELSE load_server_from_env(e)

\* Mutant: the file is required, the environment is never consulted.
load_logger_config_file_only(cached, e) ==
    IF cached.logger_config.some THEN Ok(cached.logger_config.val)
    ELSE Err(Error_new_simple("ConfigurationError", "Config file not found"))

load_logger_config(cached, e) ==
    IF cached.logger_config.some THEN Ok(cached.logger_config.val)
    ELSE load_logger_from_env(e)

(***************************************************************************)
(* rcauth-server/src/server.rs: what a service does before it listens.     *)
(***************************************************************************)
Services == {"api", "management"}

\* Ipv4Addr::from_str: four decimal octets, no leading zeros.
IsOctet(p) ==
    /\ Len(p) >= 1 /\ Len(p) <= 3
    /\ AllDigits(p)
    /\ (Len(p) > 1 => CharAt(p, 1) # "0")
    /\ DecimalValue(p, 1, 0) <= 255
IsIpv4(h) ==
    LET parts == Split(h, ".")
    IN  Len(parts) = 4 /\ \A i \in 1..4 : IsOctet(parts[i])
\* SocketAddr::from_str on "host:port" as api_addr and management_addr write
\* it.  Bracketed IPv6 hosts are accepted by the library and are not among
\* the hosts of this model.
SocketAddr_from_str(addr) ==
    LET parts == Split(addr, ":")
    IN  IF Len(parts) = 2 /\ IsIpv4(parts[1]) /\ ParseU16(parts[2]).some
        THEN Some(addr)
        ELSE None

\* HeaderValue::from_str rejects control characters.
ControlChars == {"\n", "\r"}
IsHeaderValue(o) == \A i \in 1..Len(o) : CharAt(o, i) \notin ControlChars

service_addr(s, c) == IF s = "api" THEN api_addr(c) ELSE management_addr(c)

\* Mutant: the server goes to its router and its address without validating.
run_server_setup_unvalidated(s, c) ==
    IF /\ c.enable_cors
       /\ ~SeqContains(c.cors_allowed_origins, "*")
       /\ \E i \in 1..Len(c.cors_allowed_origins) :
              ~IsHeaderValue(c.cors_allowed_origins[i])
    THEN [step |-> "panic", text |-> "Invalid CORS origin"]
    ELSE IF ~SocketAddr_from_str(service_addr(s, c)).some
    THEN [step |-> "panic", text |-> "Invalid address"]
    ELSE [step |-> "bind", text |-> ""]

\* run_api_server / run_management_server up to the bind: the validation
\* error is returned, the two expect() calls panic.
run_server_setup(s, c) ==
    LET checked == server_validate(c)
    IN  IF ~checked.ok
        THEN [step |-> "return",
              text |-> "Invalid API server configuration: " \o checked.err]
        ELSE IF /\ c.enable_cors
                /\ ~SeqContains(c.cors_allowed_origins, "*")
                /\ \E i \in 1..Len(c.cors_allowed_origins) :
                       ~IsHeaderValue(c.cors_allowed_origins[i])
        THEN [step |-> "panic", text |-> "Invalid CORS origin"]
        ELSE IF ~SocketAddr_from_str(service_addr(s, c)).some
        THEN [step |-> "panic", text |-> "Invalid address"]
        ELSE [step |-> "bind", text |-> ""]

\* The text of the I/O error a bind or a serve loop ends with.
IoErrors == 1..MaxIoErrors
io_error_text(n) == "os error " \o ToString(n)

(***************************************************************************)
(* rcauth-cli/src/serve.rs: the two spawned closures and the join.         *)
(***************************************************************************)
\* Mutant: the API closure's prefix pasted into the management closure.
FailurePrefixApiOnly(s) == "API server failed: "

FailurePrefix(s) ==
    IF s = "api" THEN "API server failed: " ELSE "Management server failed: "

\* Mutant: a failed server is reported as a validation error.
SpawnedClosureValidationError(s, r) ==
    IF r.ok THEN Ok(TRUE)
    ELSE Err(Error_new_simple("ValidationError", FailurePrefix(s) \o r.err))

\* The closure around run_api_server / run_management_server: r is the
\* server's Result<(), Box<dyn Error>>.
SpawnedClosure(s, r) ==
    IF r.ok THEN Ok(TRUE)
    ELSE Err(Error_new_simple("ServerError", FailurePrefix(s) \o r.err))

\* Display of the JoinError of a panicked task (spawn order gives the id).
TaskId(s) == IF s = "api" THEN 1 ELSE 2
JoinError_display(s) == "task " \o ToString(TaskId(s)) \o " panicked"

TaskLive == {"spawned", "binding", "serving"}
TaskTerminal == {"returned", "panicked"}

\* Mutant: `if let Ok(server_result) = result`, a JoinError falls through.
JoinedResultPanicAsOk(s, t) ==
    IF t.state = "panicked" THEN Ok(TRUE)
    ELSE IF t.result.val.ok THEN Ok(TRUE)
    ELSE Err(t.result.val.err)

\* The match on what join_next yielded for service s with task record t:
\* the result of serve::run.
JoinedResult(s, t) ==
    IF t.state = "panicked"
    THEN Err(Error_new_simple("ServerError",
                              "Server task panicked: " \o JoinError_display(s)))
    ELSE IF t.result.val.ok THEN Ok(TRUE)
    ELSE Err(t.result.val.err)

\* Mutant: waiting for every task (join_all) instead of the first.
JoinableWhenAllDone(tasks) ==
    IF \A s \in Services : tasks[s].state \in TaskTerminal THEN Services ELSE {}

\* Which completed tasks join_next may yield.
Joinable(tasks) == {s \in Services : tasks[s].state \in TaskTerminal}

\* Mutant: tasks detached from the set are not aborted by its drop.
JoinSet_drop_nothing(tasks) == {}

\* Drop of the JoinSet: every task it still owns is aborted.
JoinSet_drop(tasks) == {s \in Services : tasks[s].state \in TaskLive}

(***************************************************************************)
(* rcauth-cli/src/main.rs: the process.                                    *)
(***************************************************************************)
\* Termination for Result<(), Box<dyn Error>>
ExitCode(result) == IF result.ok THEN 0 ELSE 1

\* Mutant: the migrate command goes to the migrations without connecting.
DispatchMigrateUnconnected(cmd) ==
    IF cmd = "migrate" THEN "migrate_run" ELSE "serve_load_config"

\* Where main goes once the store configuration is loaded.
Dispatch(cmd) == IF cmd = "migrate" THEN "migrate_connect" ELSE "serve_load_config"

(***************************************************************************)
(* The inputs of a run: the command, the environment, the config file and  *)
(* the directories that exist.                                             *)
(***************************************************************************)
Commands == {"migrate", "serve"}

EmptyEnv == [k \in EnvKeys |-> None]
\* An environment that sets what the store requires and nothing else.
BaseEnv ==
    [EmptyEnv EXCEPT !["RCAUTH_DB_HOST"] = Some("db"),
                     !["RCAUTH_DB_USER"] = Some("u"),
                     !["RCAUTH_DB_NAME"] = Some("d")]
\* One variable set differently: <<name, Option(value)>>.
EnvOverrides ==
    {<<"RCAUTH_LOG_LEVEL", Some("DEBUG")>>, <<"RCAUTH_LOG_LEVEL", Some("loud")>>,
     <<"RCAUTH_DB_HOST", None>>,
     <<"RCAUTH_DB_PORT", Some("6543")>>, <<"RCAUTH_DB_PORT", Some("70000")>>,
     <<"RCAUTH_DB_PASSWORD", Some("p")>>,
     <<"RCAUTH_DB_POOL_SIZE", Some("0")>>, <<"RCAUTH_DB_POOL_SIZE", Some("5")>>,
     <<"RCAUTH_DB_POOL_SIZE", Some("many")>>,
     <<"RCAUTH_DB_SSL_MODE", Some("require")>>, <<"RCAUTH_DB_SSL_MODE", Some("bogus")>>,
     <<"RCAUTH_DB_MIGRATIONS_DIR", Some("./db")>>,
     <<"RCAUTH_API_SERVER_HOST", Some("127.0.0.1")>>,
     <<"RCAUTH_API_SERVER_HOST", Some("localhost")>>,
     <<"RCAUTH_API_SERVER_HOST", Some("")>>,
     <<"RCAUTH_API_SERVER_PORT", Some("8001")>>, <<"RCAUTH_API_SERVER_PORT", Some("0")>>,
     <<"RCAUTH_API_SERVER_PORT", Some("9000")>>, <<"RCAUTH_API_SERVER_PORT", Some("http")>>,
     <<"RCAUTH_MANAGEMENT_SERVER_HOST", Some("127.0.0.1")>>,
     <<"RCAUTH_MANAGEMENT_SERVER_PORT", Some("8000")>>,
     <<"RCAUTH_MANAGEMENT_SERVER_PORT", Some("0")>>,
     <<"RCAUTH_ENABLE_SWAGGER", Some("false")>>,
     <<"RCAUTH_ENABLE_CORS", Some("false")>>, <<"RCAUTH_ENABLE_CORS", Some("TRUE")>>,
     <<"RCAUTH_CORS_ALLOWED_ORIGINS", Some("")>>,
     <<"RCAUTH_CORS_ALLOWED_ORIGINS", Some(",")>>,
     <<"RCAUTH_CORS_ALLOWED_ORIGINS", Some("https://a.example,https://b.example")>>}
EnvChoices ==
    {EmptyEnv, BaseEnv} \cup {[BaseEnv EXCEPT ![o[1]] = o[2]] : o \in EnvOverrides}

\* A table with no key of any domain.
OtherTable == "title" :> <<"str", "rcauth">>
StoreTable(pool_size) ==
    ("RCAUTH_POSTGRES_HOST" :> <<"str", "filedb">>)
    @@ ("RCAUTH_POSTGRES_PORT" :> <<"int", 5433>>)
    @@ ("RCAUTH_POSTGRES_USER" :> <<"str", "fileuser">>)
    @@ ("RCAUTH_POSTGRES_PASSWORD" :> <<"str", "secret">>)
    @@ ("RCAUTH_POSTGRES_DATABASE" :> <<"str", "filedata">>)
    @@ ("RCAUTH_POSTGRES_POOL_SIZE" :> <<"int", pool_size>>)
    @@ ("RCAUTH_POSTGRES_SSL_MODE" :> <<"str", "disable">>)
    @@ ("RCAUTH_POSTGRES_MIGRATIONS_DIR" :> <<"str", "./migrations">>)
FileTables ==
    {OtherTable,
     StoreTable(20),
     StoreTable(0),
     [k \in DOMAIN StoreTable(20) \ {"RCAUTH_POSTGRES_PASSWORD"} |-> StoreTable(20)[k]],
     "RCAUTH_LOG_LEVEL" :> <<"str", "warn">>,
     "RCAUTH_LOG_LEVEL" :> <<"str", "loud">>,
     "api_server_port" :> <<"int", 9000>>,
     "api_server_port" :> <<"int", 0>>,
     "api_server_port" :> <<"int", 8001>>,
     "api_server_port" :> <<"str", "9000">>,
     "api_server_host" :> <<"str", "localhost">>,
     "api_server_host" :> <<"str", "">>,
     "cors_allowed_origins" :> <<"arr", <<"bad\norigin">> >>,
     "cors_allowed_origins" :> <<"arr", <<>> >>}
AbsentFile == [exists |-> FALSE, readable |-> FALSE, syntax_ok |-> FALSE, table |-> OtherTable]
UnreadableFile == [AbsentFile EXCEPT !.exists = TRUE]
MalformedFile == [UnreadableFile EXCEPT !.readable = TRUE]
FileChoices ==
    {AbsentFile, UnreadableFile, MalformedFile}
    \cup {[exists |-> TRUE, readable |-> TRUE, syntax_ok |-> TRUE, table |-> t] :
              t \in FileTables}

FsChoices == {{}, {"./migrations"}}

(***************************************************************************)
(* The state of one run of the process.                                    *)
(***************************************************************************)
VARIABLES
    command,        \* the parsed subcommand
    env,            \* the environment variables
    file,           \* rcauth.toml
    fs,             \* the paths that are directories
    pc,             \* where main is
    CONFIG,         \* the lazy static: None until first used
    logger_config,  \* Option: what load_logger_config returned to main
    store_config,   \* Option: what load_store_config returned to main
    server_config,  \* Option: what load_server_config returned to serve::run
    tasks,          \* the two spawned tasks
    aborted,        \* the tasks that were told to stop
    launches,       \* how many times each service was spawned
    joined,         \* how many completions join_next has yielded
    reported,       \* Option: the service whose completion was yielded
    outcome,        \* Option: the result of the supervision session
    main_result,    \* Option: the Result main returns
    connects,       \* how many database connections were attempted
    exit_code,      \* Option: the status the process exited with
    staged,         \* a ConfigBuilder being staged outside main, and its domain
    built,          \* Option: what build() returned for it
    checks,         \* what each later validate() of the built Config returned
    error,          \* Option: an Error under construction outside main
    response        \* Option: the ErrorResponse rendered from it

vars == <<command, env, file, fs, pc, CONFIG, logger_config, store_config,
          server_config, tasks, aborted, launches, joined, reported, outcome,
          main_result, connects, exit_code, staged, built, checks, error, response>>

builders == <<staged, built, checks>>
errors == <<error, response>>

inputs == <<command, env, file, fs>>
configs == <<CONFIG, logger_config, store_config, server_config>>
session == <<tasks, aborted, launches, joined, reported, outcome>>

\* A task: its state, its clone of the configuration, what its server
\* returned, what its closure returned, and its panic message.
Unspawned ==
    [state |-> "unspawned", config |-> None, served |-> None, result |-> None,
     panic |-> None]

\* The task record once its server has returned r.
Returned(t, s, r) ==
    [t EXCEPT !.state = "returned", !.served = Some(r), !.result = Some(SpawnedClosure(s, r))]

Init ==
    /\ command \in Commands
    /\ env \in EnvChoices
    /\ file \in FileChoices
    /\ fs \in FsChoices
    /\ pc = "load_logger"
    /\ CONFIG = None
    /\ logger_config = None
    /\ store_config = None
    /\ server_config = None
    /\ tasks = [s \in Services |-> Unspawned]
    /\ aborted = {}
    /\ launches = [s \in Services |-> 0]
    /\ joined = 0
    /\ reported = None
    /\ outcome = None
    /\ main_result = None
    /\ connects = 0
    /\ exit_code = None
    /\ staged = [domain |-> "logger", builder |-> LoggerConfigBuilder_default]
    /\ built = None
    /\ checks = <<>>
    /\ error = None
    /\ response = None

\* `?` in main: the error is main's result.
Fail(e) ==
    /\ main_result' = Some(Err(e))
    /\ pc' = "return"

\* main: load_logger_config()?.init().  The first use of CONFIG reads the file.
MainLoadLogger ==
    /\ pc = "load_logger"
    /\ LET cached == load_config_file(file)
           r == load_logger_config(cached, env)
       IN  /\ CONFIG' = Some(cached)
           /\ IF r.ok
              THEN /\ logger_config' = Some(r.val)
                   /\ pc' = "load_store"
                   /\ UNCHANGED main_result
              ELSE /\ Fail(r.err)
                   /\ UNCHANGED logger_config
    /\ UNCHANGED <<builders, errors, inputs, store_config, server_config, session, connects, exit_code>>

\* main: load_store_config()? and the match on the command.
MainLoadStore ==
    /\ pc = "load_store"
    /\ LET r == load_store_config(CONFIG.val, env, fs)
       IN  IF r.ok
           THEN /\ store_config' = Some(r.val)
                /\ pc' = Dispatch(command)
                /\ UNCHANGED main_result
           ELSE /\ Fail(r.err)
                /\ UNCHANGED store_config
    /\ UNCHANGED <<builders, errors, inputs, CONFIG, logger_config, server_config, session, connects,
                   exit_code>>

\* migrate::run: rcauth_store::store::new(config).await?
MigrateConnect ==
    /\ pc = "migrate_connect"
    /\ connects' = connects + 1
    /\ \/ /\ pc' = "migrate_run"
          /\ UNCHANGED main_result
       \/ \E n \in IoErrors :
              Fail(Error_new("DatabaseError", "Database connection failed",
                             io_error_text(n)))
    /\ UNCHANGED <<builders, errors, inputs, configs, session, exit_code>>

\* migrate::run: store.run_migrations().await?
MigrateRun ==
    /\ pc = "migrate_run"
    /\ \/ /\ main_result' = Some(Ok(TRUE))
          /\ pc' = "return"
       \/ \E n \in IoErrors :
              Fail(Error_new("DatabaseError", "Database migration failed",
                             io_error_text(n)))
    /\ UNCHANGED <<builders, errors, inputs, configs, session, connects, exit_code>>

\* serve::run: config::load_server_config()?
ServeLoadConfig ==
    /\ pc = "serve_load_config"
    /\ LET r == load_server_config(CONFIG.val, env)
       IN  IF r.ok
           THEN /\ server_config' = Some(r.val)
                /\ pc' = "spawn_api"
                /\ UNCHANGED main_result
           ELSE /\ Fail(r.err)
                /\ UNCHANGED server_config
    /\ UNCHANGED <<builders, errors, inputs, CONFIG, logger_config, store_config, session, connects,
                   exit_code>>

\* tasks.spawn(..) of one service with its clone of the configuration.
Spawn(s) ==
    /\ tasks' = [tasks EXCEPT ![s] = [Unspawned EXCEPT !.state = "spawned",
                                                       !.config = server_config]]
    /\ launches' = [launches EXCEPT ![s] = @ + 1]

ServeSpawnApi ==
    /\ pc = "spawn_api"
    /\ Spawn("api")
    /\ pc' = "spawn_management"
    /\ UNCHANGED <<builders, errors, inputs, configs, aborted, joined, reported, outcome, main_result,
                   connects, exit_code>>

ServeSpawnManagement ==
    /\ pc = "spawn_management"
    /\ Spawn("management")
    /\ pc' = "join_next"
    /\ UNCHANGED <<builders, errors, inputs, configs, aborted, joined, reported, outcome, main_result,
                   connects, exit_code>>

\* Mutant: the services spawned outside the JoinSet, which stays empty.
JoinSet_is_empty_always(ts) == TRUE

\* Whether the JoinSet holds no task: join_next then yields None at once.
JoinSet_is_empty(ts) == \A s \in Services : ts[s].state = "unspawned"

\* Mutant: `while let` in place of `if let`: the join is taken again.
AfterJoinLoop(result) == "join_next"
\* Mutant: a failed session starts the services again.
AfterJoinRestart(result) == IF result.ok THEN "return" ELSE "spawn_api"

\* Where serve::run goes with the result of the join: it returns it.
AfterJoin(result) == "return"

\* serve::run from join_next().await to its return, the drop of the JoinSet
\* included.
ServeJoinNext ==
    /\ pc = "join_next"
    /\ IF JoinSet_is_empty(tasks)
       THEN /\ outcome' = Some(Ok(TRUE))
            /\ UNCHANGED <<joined, reported>>
       ELSE \E s \in Joinable(tasks) :
                /\ outcome' = Some(JoinedResult(s, tasks[s]))
                /\ joined' = joined + 1
                /\ reported' = Some(s)
    /\ main_result' = outcome'
    /\ aborted' = JoinSet_drop(tasks)
    /\ pc' = AfterJoin(outcome'.val)
    /\ UNCHANGED <<builders, errors, inputs, configs, tasks, launches, connects, exit_code>>

\* main returns: the process exits.
MainReturn ==
    /\ pc = "return"
    /\ exit_code' = Some(ExitCode(main_result.val))
    /\ pc' = "exited"
    /\ UNCHANGED <<builders, errors, inputs, configs, session, main_result, connects>>

Running == pc # "exited"

\* A spawned task runs its server up to the bind.
ServiceSetup(s) ==
    /\ Running
    /\ tasks[s].state = "spawned"
    /\ LET r == run_server_setup(s, tasks[s].config.val)
       IN  tasks' = [tasks EXCEPT ![s] =
               CASE r.step = "return" ->
                        Returned(@, s, Err(r.text))
                 [] r.step = "panic" ->
                        [@ EXCEPT !.state = "panicked", !.panic = Some(r.text)]
                 [] r.step = "bind" -> [@ EXCEPT !.state = "binding"]]
    /\ UNCHANGED <<builders, errors, inputs, pc, configs, aborted, launches, joined, reported, outcome,
                   main_result, connects, exit_code>>

\* TcpListener::bind(..).await?
ServiceBind(s) ==
    /\ Running
    /\ tasks[s].state = "binding"
    /\ \/ tasks' = [tasks EXCEPT ![s].state = "serving"]
       \/ \E n \in IoErrors :
              tasks' = [tasks EXCEPT ![s] =
                  Returned(@, s, Err(io_error_text(n)))]
    /\ UNCHANGED <<builders, errors, inputs, pc, configs, aborted, launches, joined, reported, outcome,
                   main_result, connects, exit_code>>

\* axum::serve(..).await? ends, with an error or without one.
ServiceEnd(s) ==
    /\ Running
    /\ tasks[s].state = "serving"
    /\ \/ tasks' = [tasks EXCEPT ![s] =
              Returned(@, s, Ok(TRUE))]
       \/ \E n \in IoErrors :
              tasks' = [tasks EXCEPT ![s] =
                  Returned(@, s, Err(io_error_text(n)))]
    /\ UNCHANGED <<builders, errors, inputs, pc, configs, aborted, launches, joined, reported, outcome,
                   main_result, connects, exit_code>>

\* An aborted task stops at its next await.
ServiceCancelled(s) ==
    /\ Running
    /\ s \in aborted
    /\ tasks[s].state \in TaskLive
    /\ tasks' = [tasks EXCEPT ![s].state = "cancelled"]
    /\ UNCHANGED <<builders, errors, inputs, pc, configs, aborted, launches, joined, reported, outcome,
                   main_result, connects, exit_code>>

Next ==
    \/ MainLoadLogger
    \/ MainLoadStore
    \/ MigrateConnect
    \/ MigrateRun
    \/ ServeLoadConfig
    \/ ServeSpawnApi
    \/ ServeSpawnManagement
    \/ ServeJoinNext
    \/ MainReturn
    \/ \E s \in Services : ServiceSetup(s)
    \/ \E s \in Services : ServiceBind(s)
    \/ \E s \in Services : ServiceEnd(s)
    \/ \E s \in Services : ServiceCancelled(s)

Spec == Init /\ [][Next]_vars

\* The main task is scheduled whenever it can run.
FairSpec ==
    /\ Spec
    /\ WF_vars(ServeSpawnApi)
    /\ WF_vars(ServeSpawnManagement)
    /\ WF_vars(ServeJoinNext)
    /\ WF_vars(MainReturn)

(***************************************************************************)
(* The builders on their own: setters stage fields one at a time, build()  *)
(* consumes the builder.  The values the setters are given:                *)
(***************************************************************************)
MaxPoolSize == 2
MaxValidations == 2

HostValues == {"", "0.0.0.0", "127.0.0.1"}
ServerPortValues == {0, default_api_server_port, default_management_server_port}
OriginsValues == {<<>>, <<"*">>, <<"https://a.example", "https://b.example">>}
ServerValues ==
    [api_server_host |-> HostValues, api_server_port |-> ServerPortValues,
     management_server_host |-> HostValues, management_server_port |-> ServerPortValues,
     enable_swagger |-> BOOLEAN, enable_cors |-> BOOLEAN,
     cors_allowed_origins |-> OriginsValues]
StoreValues ==
    [host |-> {"", "db"}, port |-> {0, default_port}, user |-> {"", "u"},
     password |-> {"p"}, database |-> {"", "d"}, pool_size |-> 0..MaxPoolSize,
     ssl_mode |-> {"disable", "prefer", "require", "verify-ca", "verify-full",
                   "PREFER", "bogus", ""},
     migrations_dir |-> {"", "./migrations", "./db"}]
LoggerValues ==
    [log_level |-> {"trace", "debug", "info", "warn", "error",
                    "DEBUG", "Warn", "loud", "warning", ""}]

\* The process, not started.
ProcessIdle ==
    /\ command = "serve"
    /\ env = EmptyEnv
    /\ file = AbsentFile
    /\ pc = "load_logger"
    /\ CONFIG = None
    /\ logger_config = None
    /\ store_config = None
    /\ server_config = None
    /\ tasks = [s \in Services |-> Unspawned]
    /\ aborted = {}
    /\ launches = [s \in Services |-> 0]
    /\ joined = 0
    /\ reported = None
    /\ outcome = None
    /\ main_result = None
    /\ connects = 0
    /\ exit_code = None

process == <<command, env, file, fs, pc, CONFIG, logger_config, store_config,
             server_config, tasks, aborted, launches, joined, reported, outcome,
             main_result, connects, exit_code>>

\* Config::builder() of one of the three domains.
BuildInit ==
    /\ ProcessIdle
    /\ fs \in FsChoices
    /\ staged \in {[domain |-> "server", builder |-> ServerConfigBuilder_default],
                   [domain |-> "store", builder |-> StoreConfigBuilder_default],
                   [domain |-> "logger", builder |-> LoggerConfigBuilder_default]}
    /\ built = None
    /\ checks = <<>>
    /\ error = None
    /\ response = None

\* One setter call: builder.k(v).
Setter(d, Values) ==
    /\ staged.domain = d
    /\ built = None
    /\ \E k \in DOMAIN Values : \E v \in Values[k] :
           staged' = [staged EXCEPT !.builder = Stage(@, k, Some(v))]
    /\ UNCHANGED <<built, checks, errors, process>>

ServerSetter == Setter("server", ServerValues)
StoreSetter == Setter("store", StoreValues)
LoggerSetter == Setter("logger", LoggerValues)

\* builder.build(): the builder is consumed.
Build(d, result) ==
    /\ staged.domain = d
    /\ built = None
    /\ built' = Some(result)
    /\ UNCHANGED <<staged, checks, errors, process>>

ServerBuild == Build("server", server_build(staged.builder))
StoreBuild == Build("store", store_build(staged.builder, fs))
LoggerBuild == Build("logger", logger_build(staged.builder))

\* config.validate() on the Config that build() returned: validate takes
\* &self, so the Config is left as it is.
Validate(d, result) ==
    /\ staged.domain = d
    /\ built.some
    /\ built.val.ok
    /\ Len(checks) < MaxValidations
    /\ checks' = Append(checks, result)
    /\ UNCHANGED <<staged, built, errors, process>>

ServerValidate == Validate("server", server_validate(built.val.val))
StoreValidate == Validate("store", store_validate(built.val.val, fs))
LoggerValidate == Validate("logger", logger_validate(built.val.val))

BuildNext ==
    \/ ServerSetter
    \/ StoreSetter
    \/ LoggerSetter
    \/ ServerBuild
    \/ StoreBuild
    \/ LoggerBuild
    \/ ServerValidate
    \/ StoreValidate
    \/ LoggerValidate

BuildSpec == BuildInit /\ [][BuildNext]_vars

(***************************************************************************)
(* The error type on its own: a constructor, then with_* calls in any      *)
(* order, then the rendering of the ErrorResponse.  The values the calls   *)
(* are given:                                                              *)
(***************************************************************************)
Messages == {"Record not found", "Database connection failed"}
Causes == {"connection refused", "pool timed out"}
StatusValues == {404, 418}
Ops == {"login", "signup"}
Internals == {"raw detail"}
DataKeys == {"field", "operation"}
DataValues == {json_string("email"), <<"number", 7>>}

ErrorInit ==
    /\ ProcessIdle
    /\ fs = {}
    /\ staged = [domain |-> "logger", builder |-> LoggerConfigBuilder_default]
    /\ built = None
    /\ checks = <<>>
    /\ error = None
    /\ response = None

\* Error::new(code, message, source)
ErrorNew ==
    /\ error = None
    /\ response = None
    /\ \E code \in ErrorCode, message \in Messages, source \in Causes :
           error' = Some(Error_new(code, message, source))
    /\ UNCHANGED <<response, builders, process>>

\* Error::new_simple(code, message)
ErrorNewSimple ==
    /\ error = None
    /\ response = None
    /\ \E code \in ErrorCode, message \in Messages :
           error' = Some(Error_new_simple(code, message))
    /\ UNCHANGED <<response, builders, process>>

\* err.with_status(status)
WithStatus ==
    /\ error.some
    /\ response = None
    /\ \E status \in StatusValues : error' = Some(with_status(error.val, status))
    /\ UNCHANGED <<response, builders, process>>

\* err.with_op(op)
WithOp ==
    /\ error.some
    /\ response = None
    /\ \E op \in Ops : error' = Some(with_op(error.val, op))
    /\ UNCHANGED <<response, builders, process>>

\* err.with_internal(internal)
WithInternal ==
    /\ error.some
    /\ response = None
    /\ \E internal \in Internals : error' = Some(with_internal(error.val, internal))
    /\ UNCHANGED <<response, builders, process>>

\* err.with_data(key, value)
WithData ==
    /\ error.some
    /\ response = None
    /\ \E key \in DataKeys, value \in DataValues :
           error' = Some(with_data(error.val, key, value))
    /\ UNCHANGED <<response, builders, process>>

\* ErrorResponse::from_error(&err) of an application error, or of an error
\* of another type when none was constructed: err is borrowed.
FromError ==
    /\ response = None
    /\ response' = Some(from_error(error))
    /\ UNCHANGED <<error, builders, process>>

ErrorNext ==
    \/ ErrorNew
    \/ ErrorNewSimple
    \/ WithStatus
    \/ WithOp
    \/ WithInternal
    \/ WithData
    \/ FromError

ErrorSpec == ErrorInit /\ [][ErrorNext]_vars

(***************************************************************************)
(* The properties.                                                         *)
(***************************************************************************)
StartsWith(s, prefix) == Len(s) >= Len(prefix) /\ SubSeq(s, 1, Len(prefix)) = prefix

SomeTerminal == \E s \in Services : tasks[s].state \in TaskTerminal
SomeLive == \E s \in Services : tasks[s].state \in TaskLive
AllLive == \A s \in Services : tasks[s].state \in TaskLive
AllTerminal == \A s \in Services : tasks[s].state \in TaskTerminal
Other(s) == CHOOSE o \in Services : o # s

\* C1: once either service has returned or panicked, the supervision session
\* eventually completes with an outcome, whatever the other service does.
C1_FailFast == SomeTerminal ~> outcome.some
\* The session completed while the other service had not terminated.
C1_Witness ==
    /\ outcome.some
    /\ reported.some
    /\ tasks[Other(reported.val)].state = "serving"

\* C2: no outcome while both services run: an outcome exists only where a
\* service has terminated, the join cannot complete while both are live, and
\* it can complete as soon as one has terminated.
C2_NoOutcomeWhileRunning ==
    /\ outcome.some => SomeTerminal
    /\ (pc = "join_next" /\ AllLive) => (outcome = None /\ ~ENABLED ServeJoinNext)
    /\ (pc = "join_next" /\ SomeTerminal) => ENABLED ServeJoinNext
\* Both services listening, the supervisor waiting; and one fault later.
C2_Witness ==
    /\ pc = "join_next"
    /\ tasks["api"].state = "serving"
    /\ tasks["management"].state = "returned"
    /\ ~tasks["management"].result.val.ok

\* What the supervisor reports is what the reported service ended with.
OutcomeOfReported ==
    LET t == tasks[reported.val]
    IN  /\ t.state \in TaskTerminal
        /\ outcome.val.ok <=> (t.state = "returned" /\ t.result.val.ok)
        /\ (t.state = "returned" /\ ~t.result.val.ok)
               => (~outcome.val.ok /\ outcome.val.err = t.result.val.err)
        /\ t.state = "panicked" => ~outcome.val.ok

\* C3: one terminal event is consumed and one outcome produced, that of a
\* service that did terminate; once produced, nothing the other service does
\* changes it.
C3_OneOutcome ==
    /\ [](/\ joined <= 1
          /\ outcome.some <=> joined = 1
          /\ outcome.some <=> reported.some
          /\ outcome.some => OutcomeOfReported)
    /\ [][outcome.some => /\ outcome' = outcome
                          /\ reported' = reported
                          /\ joined' = joined]_vars
\* Both services were terminal at the join (the API service was not among
\* the tasks the drop aborted), with different results, and the one spawned
\* last is the one reported.
C3_Witness ==
    /\ AllTerminal
    /\ "api" \notin aborted
    /\ reported = Some("management")
    /\ tasks["api"].state = "returned"
    /\ tasks["api"].result.val.ok
    /\ ~outcome.val.ok

\* C4 as claimed: the message of an application error starts with
\* "API service failed: " or "Management service failed: ".
C4_ServicePrefix ==
    \A s \in Services :
        (reported = Some(s) /\ tasks[s].state = "returned" /\ ~tasks[s].result.val.ok)
            => StartsWith(outcome.val.err.message,
                          IF s = "api" THEN "API service failed: "
                          ELSE "Management service failed: ")
\* C4 as the code has it: the message of an application error is the
\* service's own error text after "API server failed: " when the API service
\* produced it and after "Management server failed: " when the management
\* service did.
C4_ServerPrefix ==
    \A s \in Services :
        (reported = Some(s) /\ tasks[s].state = "returned" /\ ~tasks[s].result.val.ok)
            => /\ ~outcome.val.ok
               /\ outcome.val.err.message =
                      (IF s = "api" THEN "API server failed: "
                       ELSE "Management server failed: ") \o tasks[s].served.val.err
\* The management service failed on its bind and is the one reported.
C4_Witness ==
    /\ reported = Some("management")
    /\ tasks["management"].served = Some(Err(io_error_text(1)))
    /\ outcome.some

\* The fields of an application error.
ErrorFields == {"message", "code", "status", "source", "internal", "op", "data"}

C6_ServeNeverExitsZero == (command = "serve" /\ exit_code.some) => exit_code.val # 0

\* C7: when the session has its outcome, every service still running has
\* been told to stop, the outcome is what serve::run returns, and main is
\* free to return without any of them having stopped.
C7_RemainingAborted ==
    outcome.some =>
        /\ \A s \in Services : tasks[s].state \in TaskLive => s \in aborted
        /\ main_result = outcome
        /\ pc \in {"return", "exited"}
        /\ pc = "return" => ENABLED MainReturn
\* The process has exited while an aborted service had not stopped.
C7_Witness ==
    /\ pc = "exited"
    /\ \E s \in Services : s \in aborted /\ tasks[s].state = "serving"

\* C8: each service is launched at most once, and never after the join.
C8_NoRestart ==
    /\ [](\A s \in Services : launches[s] <= 1)
    /\ [][SomeTerminal /\ pc \in {"join_next", "return", "exited"}
              => launches' = launches]_vars
\* A service failed, the process exited, and each was launched once.
C8_Witness ==
    /\ pc = "exited"
    /\ \A s \in Services : launches[s] = 1
    /\ \E s \in Services : tasks[s].state = "returned" /\ ~tasks[s].result.val.ok

\* Whether a loaded configuration passes its own validate().
LoggerValidated == logger_config.some /\ logger_validate(logger_config.val).ok
StoreValidated == store_config.some /\ store_validate(store_config.val, fs).ok
ServerValidated == server_config.some /\ server_validate(server_config.val).ok
\* A configuration the command uses was not resolved.
ResolutionFailed ==
    \/ logger_config = None
    \/ store_config = None
    \/ (command = "serve" /\ server_config = None)

\* C9: a service is launched only once the logger, store and server
\* configurations are resolved and valid, a database connection is attempted
\* only once the configurations its command loads (logger and store) are
\* resolved and valid, and a process that exits without having resolved them
\* exits non-zero with no service launched and no connection attempted.
C9_StartupOrdering ==
    /\ (\E s \in Services : launches[s] > 0)
           => (LoggerValidated /\ StoreValidated /\ ServerValidated)
    /\ connects > 0 => (LoggerValidated /\ StoreValidated)
    /\ (exit_code.some /\ ResolutionFailed)
           => /\ exit_code.val # 0
              /\ \A s \in Services : launches[s] = 0
              /\ connects = 0

\* The three configuration domains and, for each field of a domain, the key
\* the config file holds it under and the type the file must give it.
Domains == {"store", "server", "logger"}
FileKey(d) ==
    CASE d = "store" ->
             [host |-> "RCAUTH_POSTGRES_HOST", port |-> "RCAUTH_POSTGRES_PORT",
              user |-> "RCAUTH_POSTGRES_USER", password |-> "RCAUTH_POSTGRES_PASSWORD",
              database |-> "RCAUTH_POSTGRES_DATABASE",
              pool_size |-> "RCAUTH_POSTGRES_POOL_SIZE",
              ssl_mode |-> "RCAUTH_POSTGRES_SSL_MODE",
              migrations_dir |-> "RCAUTH_POSTGRES_MIGRATIONS_DIR"]
      [] d = "server" ->
             [api_server_host |-> "api_server_host",
              api_server_port |-> "api_server_port",
              management_server_host |-> "management_server_host",
              management_server_port |-> "management_server_port",
              enable_swagger |-> "enable_swagger", enable_cors |-> "enable_cors",
              cors_allowed_origins |-> "cors_allowed_origins"]
      [] d = "logger" -> [log_level |-> "RCAUTH_LOG_LEVEL"]
FileType(d) ==
    CASE d = "store" ->
             [host |-> "String", port |-> "u16", user |-> "String",
              password |-> "String", database |-> "String", pool_size |-> "u32",
              ssl_mode |-> "String", migrations_dir |-> "String"]
      [] d = "server" ->
             [api_server_host |-> "String", api_server_port |-> "u16",
              management_server_host |-> "String", management_server_port |-> "u16",
              enable_swagger |-> "bool", enable_cors |-> "bool",
              cors_allowed_origins |-> "Vec<String>"]
      [] d = "logger" -> [log_level |-> "String"]
Fields(d) == DOMAIN FileKey(d)
IsTomlOf(type, v) ==
    CASE type = "String" -> IsTomlString(v)
      [] type = "u16" -> IsTomlU16(v)
      [] type = "u32" -> IsTomlU32(v)
      [] type = "bool" -> IsTomlBool(v)
      [] type = "Vec<String>" -> IsTomlStrings(v)
\* The file provider holds field k of domain d, and the value it holds.
FileHolds(d, k) ==
    /\ file.exists /\ file.readable /\ file.syntax_ok
    /\ FileKey(d)[k] \in DOMAIN file.table
    /\ IsTomlOf(FileType(d)[k], file.table[FileKey(d)[k]])
FileValue(d, k) == file.table[FileKey(d)[k]][2]
\* What the environment provider holds for the fields of domain d: None
\* where the variable is unset or its text is no value of the field's type.
EnvStaged(d) ==
    CASE d = "store" -> store_env_builder(env)
      [] d = "server" -> server_env_builder(env)
      [] d = "logger" -> logger_env_builder(env)
EnvHolds(d, k) == EnvStaged(d)[k].some
EnvValue(d, k) == EnvStaged(d)[k].val
\* The resolved configuration of a domain, once its loader has returned it.
Resolved(d) ==
    CASE d = "store" -> store_config
      [] d = "server" -> server_config
      [] d = "logger" -> logger_config
\* The file parsed as the configuration of the domain.
FileGives(d) ==
    /\ CONFIG.some
    /\ CASE d = "store" -> CONFIG.val.store_config.some
         [] d = "server" -> CONFIG.val.server_config.some
         [] d = "logger" -> CONFIG.val.logger_config.some
\* The value of a field that no provider gives.
FieldDefault(d) ==
    CASE d = "store" ->
             [host |-> "", port |-> default_port, user |-> "", password |-> "",
              database |-> "", pool_size |-> default_pool_size,
              ssl_mode |-> default_ssl_mode, migrations_dir |-> default_migrations_dir]
      [] d = "server" -> ServerConfig_default
      [] d = "logger" -> [log_level |-> default_log_level]

\* C10 as claimed, for the provider list (config file, environment): a field
\* both providers hold resolves to the environment's value, and a field only
\* the file holds resolves to the file's value.
C10_LastWriteWins ==
    \A d \in Domains :
        Resolved(d).some =>
            \A k \in Fields(d) :
                FileHolds(d, k) =>
                    Resolved(d).val[k] =
                        IF EnvHolds(d, k) THEN EnvValue(d, k) ELSE FileValue(d, k)
\* C10 as the code has it: the providers are chosen per domain, not merged
\* per key.  When the file parses as the domain's configuration every field
\* is the file's value, or the field's default where the file has no such
\* key, and the environment is ignored; otherwise every field is the
\* environment's value, or the field's default where the environment has
\* none, and the file is ignored.
C10_DomainFallback ==
    \A d \in Domains :
        Resolved(d).some =>
            \A k \in Fields(d) :
                Resolved(d).val[k] =
                    IF FileGives(d)
                    THEN IF FileHolds(d, k) THEN FileValue(d, k) ELSE FieldDefault(d)[k]
                    ELSE IF EnvHolds(d, k) THEN EnvValue(d, k) ELSE FieldDefault(d)[k]
\* The file and the environment give different API ports and the services
\* were launched with the file's.
C10_Witness ==
    /\ server_config.some
    /\ FileHolds("server", "api_server_port")
    /\ EnvHolds("server", "api_server_port")
    /\ FileValue("server", "api_server_port") # EnvValue("server", "api_server_port")
    /\ server_config.val.api_server_port = FileValue("server", "api_server_port")
    /\ \A s \in Services : launches[s] = 1

\* The loader of a domain has returned.
LoaderRan(d) ==
    CASE d = "logger" -> pc # "load_logger"
      [] d = "store" -> logger_config.some /\ pc \notin {"load_logger", "load_store"}
      [] d = "server" ->
             /\ command = "serve"
             /\ store_config.some
             /\ pc \notin {"load_logger", "load_store", "serve_load_config"}
\* What build() gives for the builder staged from the environment alone.
EnvBuilt(d) ==
    CASE d = "store" -> store_build(store_env_builder(env), fs)
      [] d = "server" -> server_build(server_env_builder(env))
      [] d = "logger" -> logger_build(logger_env_builder(env))
\* main's result is a ConfigurationError.
FailedWithConfigurationError ==
    /\ main_result.some
    /\ ~main_result.val.ok
    /\ main_result.val.err.code = "ConfigurationError"
\* The domain was resolved from the environment alone: it is what the
\* environment's builder built, and resolution failed with a
\* ConfigurationError exactly when that builder's build() failed.
EnvOnly(d) ==
    LoaderRan(d) =>
        /\ Resolved(d).some <=> EnvBuilt(d).ok
        /\ EnvBuilt(d).ok => Resolved(d).val = EnvBuilt(d).val
        /\ ~EnvBuilt(d).ok => FailedWithConfigurationError

\* C11 as claimed: with a config file that is present and is not TOML,
\* resolution fails with a ConfigurationError.
C11_MalformedIsFatal ==
    (file = MalformedFile /\ LoaderRan("logger")) => FailedWithConfigurationError
\* C11 as the code has it: a config file that is present and is not TOML is
\* passed over, and every domain is resolved from the environment alone, as
\* it is when the file is absent; it is no error by itself.
C11_MalformedIsPassedOver ==
    file = MalformedFile => \A d \in Domains : EnvOnly(d)
\* The file is not TOML and both services were launched.
C11_Witness ==
    /\ file = MalformedFile
    /\ LoaderRan("server")
    /\ server_config.some
    /\ \A s \in Services : launches[s] = 1

\* C12: with no config file every domain is resolved from the environment
\* alone: its loader succeeds exactly when the builder staged from the
\* environment passes validation, and returns what that builder built.
C12_AbsentFileIsEnvOnly ==
    ~file.exists => \A d \in Domains : EnvOnly(d)
\* No file: the logger and the store were resolved from the environment and
\* the server's resolution failed on the environment's port.
C12_Witness ==
    /\ ~file.exists
    /\ LoaderRan("server")
    /\ server_config = None
    /\ store_config.some
    /\ FailedWithConfigurationError

\* The environment variables of a domain that hold a typed value, and
\* whether a text is a value of the variable's type.
TypedEnvKeys(d) ==
    CASE d = "store" -> {"RCAUTH_DB_PORT", "RCAUTH_DB_POOL_SIZE"}
      [] d = "server" -> {"RCAUTH_API_SERVER_PORT", "RCAUTH_MANAGEMENT_SERVER_PORT",
                          "RCAUTH_ENABLE_SWAGGER", "RCAUTH_ENABLE_CORS"}
      [] d = "logger" -> {}
Coerces(k, text) ==
    CASE k \in {"RCAUTH_ENABLE_SWAGGER", "RCAUTH_ENABLE_CORS"} -> text \in {"true", "false"}
      [] k = "RCAUTH_DB_POOL_SIZE" -> ParseU32(text).some
      [] OTHER -> ParseU16(text).some
Contains(s, sub) ==
    \E i \in 1..(Len(s) - Len(sub) + 1) : SubSeq(s, i, i + Len(sub) - 1) = sub

\* C13: when a domain is resolved from the environment and a typed variable
\* of it holds a text that is no value of its type, the domain is not
\* resolved: main fails with a ConfigurationError whose message names the
\* variable.
C13_CoercionFailureIsError ==
    \A d \in Domains : \A k \in TypedEnvKeys(d) :
        (/\ LoaderRan(d)
         /\ ~FileGives(d)
         /\ env[k].some
         /\ ~Coerces(k, env[k].val))
            => /\ Resolved(d) = None
               /\ FailedWithConfigurationError
               /\ Contains(main_result.val.err.message, k)

\* C14: every configuration object handed to a consumer passes the
\* validate() of its domain: the logger's and the store's that main was
\* given by the loaders, the server's that serve::run was given, and each
\* service's clone of it.
C14_HeldConfigsAreValid ==
    /\ logger_config.some => logger_validate(logger_config.val).ok
    /\ store_config.some => store_validate(store_config.val, fs).ok
    /\ server_config.some => server_validate(server_config.val).ok
    /\ \A s \in Services :
           tasks[s].config.some => server_validate(tasks[s].config.val).ok

\* The configuration build() makes of the staged builder before it
\* validates it: each staged value, or the field's default.
StagedConfig ==
    [k \in Fields(staged.domain) |->
        UnwrapOr(staged.builder[k], FieldDefault(staged.domain)[k])]
BuiltFor(d) == staged.domain = d /\ built.some

\* The invariants of the two domains, each with whether the configuration
\* breaks it.
Collision(c) ==
    /\ c.api_server_host = c.management_server_host
    /\ c.api_server_port = c.management_server_port
ZeroPort(c) == c.api_server_port = 0 \/ c.management_server_port = 0
EmptyAllowList(c) == c.enable_cors /\ c.cors_allowed_origins = <<>>
ZeroPoolSize(c) == c.pool_size = 0
BadSslMode(c) == ~SeqContains(valid_ssl_modes, c.ssl_mode)
\* The error texts of the invariants.
CollisionText == "API and management servers cannot share the same host:port combination"
ZeroPortTexts == {"API server port cannot be 0", "Management server port cannot be 0"}
EmptyAllowListText == "CORS is enabled but no allowed origins are specified"
ZeroPoolSizeText == "Pool size must be at least 1"
BadSslModeText == "Invalid SSL mode: "

\* C15 as claimed: build() reports the first violation in the order
\* collision, zero port, empty allow-list for the server, and zero pool
\* size, enumerated value for the store (with the hosts, the user and the
\* database name given).
C15_DocumentedOrder ==
    /\ (BuiltFor("server") /\ StagedConfig.api_server_host # ""
            /\ StagedConfig.management_server_host # "") =>
           LET c == StagedConfig
           IN  /\ Collision(c) =>
                      ~built.val.ok /\ StartsWith(built.val.err, CollisionText)
               /\ (~Collision(c) /\ ZeroPort(c)) =>
                      ~built.val.ok /\ built.val.err \in ZeroPortTexts
               /\ (~Collision(c) /\ ~ZeroPort(c) /\ EmptyAllowList(c)) =>
                      ~built.val.ok /\ built.val.err = EmptyAllowListText
    /\ (BuiltFor("store") /\ StagedConfig.host # "" /\ StagedConfig.user # ""
            /\ StagedConfig.database # "") =>
           LET c == StagedConfig
           IN  /\ ZeroPoolSize(c) => ~built.val.ok /\ built.val.err = ZeroPoolSizeText
               /\ (~ZeroPoolSize(c) /\ BadSslMode(c)) =>
                      ~built.val.ok /\ StartsWith(built.val.err, BadSslModeText)

\* The rules of validate() in the order the code checks them: whether the
\* configuration breaks the rule, and how the error text starts.
ServerRules(c) ==
    << [bad |-> c.api_server_host = "", text |-> "API server host cannot be empty"],
       [bad |-> c.management_server_host = "",
        text |-> "Management server host cannot be empty"],
       [bad |-> c.api_server_port = 0, text |-> "API server port cannot be 0"],
       [bad |-> c.management_server_port = 0,
        text |-> "Management server port cannot be 0"],
       [bad |-> Collision(c), text |-> CollisionText],
       [bad |-> EmptyAllowList(c), text |-> EmptyAllowListText] >>
StoreRules(c) ==
    << [bad |-> c.host = "", text |-> "Database host cannot be empty"],
       [bad |-> c.user = "", text |-> "Database user cannot be empty"],
       [bad |-> c.database = "", text |-> "Database name cannot be empty"],
       [bad |-> ZeroPoolSize(c), text |-> ZeroPoolSizeText],
       [bad |-> BadSslMode(c), text |-> BadSslModeText],
       [bad |-> c.migrations_dir # "" /\ c.migrations_dir \notin fs,
        text |-> "Migrations directory does not exist or is not a directory: "] >>
\* build() succeeded if no rule is broken and otherwise reports the first
\* broken rule of the sequence.
ReportsFirstOf(rules) ==
    /\ built.val.ok <=> \A i \in 1..Len(rules) : ~rules[i].bad
    /\ \A i \in 1..Len(rules) :
           (rules[i].bad /\ \A j \in 1..(i - 1) : ~rules[j].bad)
               => ~built.val.ok /\ StartsWith(built.val.err, rules[i].text)

\* C15 as the code has it: build() reports the first violation in the order
\* empty API host, empty management host, zero API port, zero management
\* port, host:port collision, empty allow-list for the server, and empty
\* host, empty user, empty database name, zero pool size, enumerated SSL
\* mode, migrations directory for the store.
C15_CodeOrder ==
    /\ BuiltFor("server") => ReportsFirstOf(ServerRules(StagedConfig))
    /\ BuiltFor("store") => ReportsFirstOf(StoreRules(StagedConfig))
\* Identical addresses with both ports zero: the zero API port is reported.
C15_Witness ==
    /\ BuiltFor("server")
    /\ Collision(StagedConfig)
    /\ StagedConfig.api_server_port = 0
    /\ StagedConfig.api_server_host # ""
    /\ built = Some(Err("API server port cannot be 0"))

\* The error names both services.
NamesBothServices(text) == Contains(text, "API") /\ Contains(text, "management")
\* Every field but the two addresses' relation is valid.
OtherServerFieldsValid(c) ==
    /\ c.api_server_host # "" /\ c.management_server_host # ""
    /\ ~ZeroPort(c)
    /\ ~EmptyAllowList(c)

\* C16 as claimed: build() of every server configuration whose two services
\* have the same host and the same port fails with an error naming both
\* services, and where host or port differs and the other fields are valid
\* build() succeeds.
C16_CollisionNamesBoth ==
    BuiltFor("server") =>
        LET c == StagedConfig
        IN  /\ Collision(c) => ~built.val.ok /\ NamesBothServices(built.val.err)
            /\ (~Collision(c) /\ OtherServerFieldsValid(c)) => built.val.ok
\* C16 as the code has it: build() of every server configuration whose two
\* services have the same host and the same port fails; the error is the
\* collision, naming both services and the shared address, when the hosts
\* are non-empty and the ports non-zero (otherwise it is the empty host or
\* the zero port, checked first); where host or port differs build() never
\* reports a collision and succeeds if the other fields are valid.
C16_CollisionFails ==
    BuiltFor("server") =>
        LET c == StagedConfig
        IN  /\ Collision(c) => ~built.val.ok
            /\ (Collision(c) /\ c.api_server_host # "" /\ ~ZeroPort(c)) =>
                   /\ built.val.err =
                          CollisionText \o " (" \o c.management_server_host \o ":"
                              \o ToString(c.management_server_port) \o ")"
                   /\ NamesBothServices(built.val.err)
            /\ (~Collision(c) /\ ~built.val.ok) => ~StartsWith(built.val.err, CollisionText)
            /\ (~Collision(c) /\ OtherServerFieldsValid(c)) => built.val.ok
\* Both services staged on 127.0.0.1 and the API's default port.
C16_Witness ==
    /\ BuiltFor("server")
    /\ staged.builder.api_server_host = Some("127.0.0.1")
    /\ staged.builder.management_server_host = Some("127.0.0.1")
    /\ staged.builder.management_server_port = Some(default_api_server_port)
    /\ ~built.val.ok
    /\ NamesBothServices(built.val.err)

\* C17: build() fails for every configuration with a zero port: the API
\* server's, the management server's, and the store's.
C17_ZeroPortRejected ==
    /\ (BuiltFor("server") /\ ZeroPort(StagedConfig)) => ~built.val.ok
    /\ (BuiltFor("store") /\ StagedConfig.port = 0) => ~built.val.ok

\* Every store field but the pool size is valid: the migrations directory,
\* if one is named, is a directory.
OtherStoreFieldsValid(c) ==
    /\ c.host # "" /\ c.user # "" /\ c.database # ""
    /\ ~BadSslMode(c)
    /\ (c.migrations_dir = "" \/ c.migrations_dir \in fs)

C19_AllowList ==
    (/\ BuiltFor("server")
     /\ StagedConfig.api_server_host # "" /\ StagedConfig.management_server_host # ""
     /\ ~ZeroPort(StagedConfig) /\ ~Collision(StagedConfig)) =>
        LET c == StagedConfig
        IN  /\ (c.enable_cors /\ Len(c.cors_allowed_origins) = 0)
                   => built.val = Err(EmptyAllowListText)
            /\ (c.enable_cors /\ Len(c.cors_allowed_origins) > 0) => built.val.ok
            /\ ~c.enable_cors => built.val.ok
\* CORS was switched off, an empty allow-list staged, and build() succeeded.
C19_Witness ==
    /\ BuiltFor("server")
    /\ staged.builder.enable_cors = Some(FALSE)
    /\ staged.builder.cors_allowed_origins = Some(<<>>)
    /\ built.val.ok

\* The fixed sets of the two enumerated fields.
SslModeSet == {"disable", "prefer", "require", "verify-ca", "verify-full"}
LogLevelSet == {"trace", "debug", "info", "warn", "error"}

\* C20: the store's build() fails for every ssl_mode outside the fixed set
\* as written, and with the other fields valid succeeds for every one in it;
\* the logger's build() succeeds exactly when log_level, lowercased, is in
\* its fixed set.
C20_Enumerated ==
    /\ BuiltFor("store") =>
           LET c == StagedConfig
           IN  /\ c.ssl_mode \notin SslModeSet => ~built.val.ok
               /\ (c.ssl_mode \in SslModeSet /\ ~ZeroPoolSize(c) /\ c.host # ""
                       /\ c.user # "" /\ c.database # ""
                       /\ (c.migrations_dir = "" \/ c.migrations_dir \in fs))
                      => built.val.ok
               /\ (c.ssl_mode \notin SslModeSet /\ ~ZeroPoolSize(c) /\ c.host # ""
                       /\ c.user # "" /\ c.database # "")
                      => StartsWith(built.val.err, BadSslModeText \o c.ssl_mode)
    /\ BuiltFor("logger") =>
           LET c == StagedConfig
           IN  /\ built.val.ok <=> to_lowercase(c.log_level) \in LogLevelSet
               /\ built.val.ok => built.val.val = c
               /\ ~built.val.ok => StartsWith(built.val.err,
                                              "Invalid log level: " \o c.log_level)
\* A level written in capitals was accepted.
C20_Witness ==
    /\ BuiltFor("logger")
    /\ staged.builder.log_level = Some("DEBUG")
    /\ built.val.ok

(***************************************************************************)
(* Defaulting.                                                             *)
(***************************************************************************)
\* The defaults as documented, written out.
DocumentedDefault(d) ==
    CASE d = "server" ->
           [api_server_host |-> "0.0.0.0", api_server_port |-> 8000,
            management_server_host |-> "0.0.0.0", management_server_port |-> 8001,
            enable_swagger |-> TRUE, enable_cors |-> TRUE,
            cors_allowed_origins |-> <<"*">>]
      [] d = "store" ->
           [host |-> "", port |-> 5432, user |-> "", password |-> "", database |-> "",
            pool_size |-> 10, ssl_mode |-> "prefer", migrations_dir |-> "./migrations"]
      [] d = "logger" -> [log_level |-> "info"]

ErrorRecords ==
    {tasks[s].result.val.err :
        s \in {x \in Services : tasks[x].result.some /\ ~tasks[x].result.val.ok}}
    \cup {r.val.err : r \in {x \in {outcome, main_result} : x.some /\ ~x.val.ok}}

ElevenKinds ==
    {"Conflict", "Internal", "Invalid", "NotFound", "Unauthorized", "Forbidden",
     "Timeout", "Unavailable", "UnprocessableEntity", "DatabaseError",
     "ConfigurationError"}

\* C23 as stated: the kind of every error the process produces is one of
\* the eleven listed kinds.
C23_ElevenKinds == \A e \in ErrorRecords : e.code \in ElevenKinds

\* C23: the kind of every error the process produces is one of the eleven
\* listed kinds or ServerError; ServerError is the kind of every error of the
\* service supervisor and of no error outside the serve command.
C23_TwelveKinds ==
    /\ \A e \in ErrorRecords : e.code \in ElevenKinds \cup {"ServerError"}
    /\ \A e \in ErrorRecords : e.code = "ServerError" => command = "serve"
    /\ \A s \in Services :
           tasks[s].result.some /\ ~tasks[s].result.val.ok
               => tasks[s].result.val.err.code = "ServerError"
    /\ outcome.some /\ ~outcome.val.ok => outcome.val.err.code = "ServerError"

\* The supervisor has reported a service that failed to bind, and the
\* process has exited with that error.
C23_Witness ==
    /\ pc = "exited"
    /\ outcome.some /\ ~outcome.val.ok
    /\ outcome.val.err.code = "ServerError"
    /\ main_result = outcome
    /\ \E s \in Services :
           reported = Some(s) /\ tasks[s].served = Some(Err(io_error_text(1)))

(***************************************************************************)
(* The rendering of errors.                                                *)
(***************************************************************************)
\* The code string and the status of each kind, written out.
KindCode ==
    [Conflict |-> "conflict", Internal |-> "internal", Invalid |-> "invalid",
     NotFound |-> "not_found", ServerError |-> "server_error",
     Unauthorized |-> "unauthorized", Forbidden |-> "forbidden",
     Timeout |-> "timeout", Unavailable |-> "unavailable",
     UnprocessableEntity |-> "unprocessable_entity",
     DatabaseError |-> "database_error", ValidationError |-> "validation_error",
     ConfigurationError |-> "configuration_error"]
KindStatus ==
    [Conflict |-> 409, Internal |-> 500, Invalid |-> 400, NotFound |-> 404,
     ServerError |-> 500, Unauthorized |-> 401, Forbidden |-> 403, Timeout |-> 408,
     Unavailable |-> 503, UnprocessableEntity |-> 422, DatabaseError |-> 500,
     ValidationError |-> 422, ConfigurationError |-> 500]

\* The response was rendered from the application error at hand.
Rendered == error.some /\ response.some

\* C24 as stated: whatever calls built the error, the rendered status is
\* the status of its kind and the rendered code is the name of its kind in
\* lower case with underscores.
C24_KindDeterminesStatus ==
    Rendered => /\ response.val.status = KindStatus[error.val.code]
                /\ response.val.code = KindCode[error.val.code]

\* C24: the rendered code is the name of the kind in lower case with
\* underscores and the rendered status is the status held by the error,
\* which a constructor sets to the status of the kind, which only
\* with_status changes, and which with_status sets to what it is given.
C24_StatusUnlessOverridden ==
    /\ [](Rendered => /\ response.val.code = KindCode[error.val.code]
                      /\ response.val.status = error.val.status)
    /\ [][~error.some /\ error'.some
              => error'.val.status = KindStatus[error'.val.code]]_vars
    /\ [][error.some
              => /\ error'.some
                 /\ error'.val.code = error.val.code
                 /\ error'.val.status # error.val.status
                        => error' = Some(with_status(error.val, error'.val.status))]_vars

\* A NotFound error given a label, a detail and an internal text, and
\* rendered with the status and the code of its kind.
C24_Witness ==
    /\ Rendered
    /\ error.val.code = "NotFound"
    /\ error.val.op = Some("login")
    /\ error.val.data.some
    /\ error.val.internal = Some("raw detail")
    /\ response.val.status = 404
    /\ response.val.code = "not_found"

\* C25: the response rendered from an error that has an underlying cause is
\* the response of the same error with any other cause, and the text of the
\* cause is no part of the rendered message and no value of the details.
C25_CauseConfidential ==
    Rendered /\ error.val.source.some =>
        /\ \A cause \in Causes :
               from_error(Some([error.val EXCEPT !.source = Some(cause)])) = response.val
        /\ ~Contains(response.val.message, error.val.source.val)
        /\ response.val.details.some =>
               \A k \in DOMAIN response.val.details.val :
                   response.val.details.val[k] # json_string(error.val.source.val)

\* C26: the rendered details hold the operation label under "operation"
\* when a label was set and are the data as they are when none was; every
\* entry of the data under another key is in the details unchanged, the
\* details hold nothing else, they are absent when there is neither label
\* nor data, and rendering leaves the error as it was.
C26_OperationFolding ==
    /\ [](Rendered =>
            LET e == error.val
                d == response.val.details
            IN  /\ e.op.some => /\ d.some
                                /\ "operation" \in DOMAIN d.val
                                /\ d.val["operation"] = json_string(e.op.val)
                /\ ~e.op.some => d = e.data
                /\ e.data.some =>
                       /\ d.some
                       /\ \A k \in DOMAIN e.data.val \ {"operation"} :
                              k \in DOMAIN d.val /\ d.val[k] = e.data.val[k]
                /\ d.some =>
                       DOMAIN d.val \subseteq
                           (IF e.data.some THEN DOMAIN e.data.val ELSE {})
                               \cup (IF e.op.some THEN {"operation"} ELSE {})
                /\ ~e.op.some /\ ~e.data.some => d = None)
    /\ [][response' # response => error' = error]_vars

\* An error with a label and with data under "field" and under "operation"
\* itself: the details hold the label and the field.
C26_Witness ==
    /\ Rendered
    /\ error.val.op = Some("signup")
    /\ error.val.data.some
    /\ DOMAIN error.val.data.val = {"field", "operation"}
    /\ error.val.data.val["operation"] = json_string("email")
    /\ response.val.details.some
    /\ response.val.details.val["operation"] = json_string("signup")
    /\ response.val.details.val["field"] = error.val.data.val["field"]

(***************************************************************************)
(* The migrate command.                                                    *)
(***************************************************************************)
\* The error main ended with, when it ended with one.
MainFailed == main_result.some /\ ~main_result.val.ok
MainError == main_result.val.err

\* C27: the migrations run only after the one connection attempt has
\* succeeded; a failed connection ends the command there, with a
\* DatabaseError, and a failed migration ends it with a DatabaseError; the
\* command succeeds only out of the migrations step, after the connection.
C27_MigrateOrder ==
    /\ [](pc = "migrate_run" => command = "migrate" /\ connects = 1 /\ main_result = None)
    /\ [](command = "migrate" /\ store_config.some /\ MainFailed
             => /\ MainError.code = "DatabaseError"
                /\ connects = 1
                /\ \/ StartsWith(MainError.message, "Database connection failed: ")
                   \/ StartsWith(MainError.message, "Database migration failed: "))
    /\ [][pc = "migrate_connect" /\ pc' # "migrate_run"
              => /\ pc' = "return"
                 /\ main_result'.some /\ ~main_result'.val.ok
                 /\ main_result'.val.err.code = "DatabaseError"
                 /\ StartsWith(main_result'.val.err.message, "Database connection failed: ")]_vars
    /\ [][pc = "migrate_run"
              => /\ pc' = "return"
                 /\ main_result'.some
                 /\ ~main_result'.val.ok
                        => /\ main_result'.val.err.code = "DatabaseError"
                           /\ StartsWith(main_result'.val.err.message,
                                         "Database migration failed: ")]_vars
    /\ [][command = "migrate" /\ main_result = None /\ main_result'.some
                  /\ main_result'.val.ok
              => pc = "migrate_run" /\ connects = 1]_vars
    /\ [](command = "migrate" => connects <= 1)

\* The connection was made, the migrations failed, and the process exited.
C27_Witness ==
    /\ command = "migrate"
    /\ pc = "exited"
    /\ connects = 1
    /\ MainFailed
    /\ MainError.code = "DatabaseError"
    /\ StartsWith(MainError.message, "Database migration failed: ")
    /\ exit_code = Some(1)

InvalidServerConfig == server_config.some /\ ~server_validate(server_config.val).ok

\* C29: with a server configuration that validate() rejects, no service
\* reaches its bind or panics on the way: each one that ran returned the
\* validation error, the outcome of the session is never Ok, and once either
\* service has returned the session does end with an Err outcome, whichever
\* service is reported.
C29_ValidateBeforeBind ==
    /\ [](InvalidServerConfig =>
            /\ \A s \in Services :
                   /\ tasks[s].state \notin {"binding", "serving", "panicked"}
                   /\ tasks[s].served.some =>
                          /\ ~tasks[s].served.val.ok
                          /\ StartsWith(tasks[s].served.val.err, "Invalid ")
                          /\ Contains(tasks[s].served.val.err,
                                      " server configuration: "
                                          \o server_validate(server_config.val).err)
            /\ outcome.some => ~outcome.val.ok /\ reported.some)
    /\ (InvalidServerConfig /\ SomeTerminal) ~> (outcome.some /\ ~outcome.val.ok)

\* The file gave a configuration with an empty API host, which validate()
\* rejects and which is no address either; the management service was the
\* one reported and the process exited with its error.
C29_Witness ==
    /\ InvalidServerConfig
    /\ ~SocketAddr_from_str(service_addr("api", server_config.val)).some
    /\ tasks["api"].state = "returned"
    /\ reported = Some("management")
    /\ outcome.some /\ ~outcome.val.ok
    /\ pc = "exited"

(***************************************************************************)
(* The allow-list of the environment.                                      *)
(***************************************************************************)
OriginsVar == env["RCAUTH_CORS_ALLOWED_ORIGINS"]

\* C30: a server configuration resolved from the environment never has an
\* empty allow-list, whatever RCAUTH_CORS_ALLOWED_ORIGINS holds: the empty
\* string gives the list of one empty string, neither the loader nor a
\* service rejects the configuration for having no allowed origins, and the
\* entries may be empty strings.
C30_EnvAllowListNeverEmpty ==
    (CONFIG.some /\ ~FileGives("server")) =>
        /\ server_config.some =>
               /\ Len(server_config.val.cors_allowed_origins) >= 1
               /\ OriginsVar = Some("") => server_config.val.cors_allowed_origins = <<"">>
               /\ OriginsVar = Some(",") => server_config.val.cors_allowed_origins = <<"", "">>
               /\ OriginsVar = None => server_config.val.cors_allowed_origins = <<"*">>
        /\ MainFailed => ~Contains(MainError.message, EmptyAllowListText)
        /\ LoaderRan("server") /\ EnvBuilt("server").ok => server_config.some
        /\ \A s \in Services :
               tasks[s].served.some /\ ~tasks[s].served.val.ok
                   => ~Contains(tasks[s].served.val.err, EmptyAllowListText)

\* RCAUTH_CORS_ALLOWED_ORIGINS is set to the empty string, CORS is on, and
\* the API service is serving with the allow-list of one empty string.
C30_Witness ==
    /\ ~FileGives("server")
    /\ OriginsVar = Some("")
    /\ server_config.some
    /\ server_config.val.enable_cors
    /\ server_config.val.cors_allowed_origins = <<"">>
    /\ tasks["api"].state = "serving"

====
